---- MODULE Spec2Model ----
(***************************************************************************)
(* Model of the Anki study TUI (main.go): the Bubble Tea model, its        *)
(* Update function, the two asynchronous commands (fetchDueCardsCmd and    *)
(* answerCardCmd) and the runtime that runs commands and feeds their       *)
(* result messages back into Update.                                       *)
(***************************************************************************)
EXTENDS Integers, Sequences, FiniteSets, TLC

(***************************************************************************)
(* Bounds of the model.                                                    *)
(***************************************************************************)
\* longest list the server returns from findCards / cardsInfo
MaxCards == 2
\* most commands (fetch or answer calls) outstanding at one time
MaxInflight == 2

(***************************************************************************)
(* appState (main.go 93-101).                                              *)
(***************************************************************************)
stateLoading == "stateLoading"
stateDisplayingCard == "stateDisplayingCard"
stateNoCards == "stateNoCards"
stateError == "stateError"
stateQuitting == "stateQuitting"

appState == {stateLoading, stateDisplayingCard, stateNoCards, stateError, stateQuitting}

(***************************************************************************)
(* The server side: what AnkiConnect can answer.                           *)
(***************************************************************************)
\* card identifiers the server knows
CardIds == {101, 102}

\* the server's collection: the "buttons" array and the field values of each card
ButtonsOf(id) ==
    CASE id = 101 -> <<1, 2, 3, 4>>
      [] id = 102 -> <<5, 3>>

FrontOf(id) == CASE id = 101 -> "front101" [] id = 102 -> "front102"
BackOf(id) == CASE id = 101 -> "back101" [] id = 102 -> "back102"

\* one element of the cardsInfo result: either a record that unmarshals into
\* cardInfoResult, or one that does not (parses = FALSE)
BadInfo == [parses |-> FALSE, cardId |-> 0, front |-> "", back |-> "", buttons |-> << >>]

InfoRecords ==
    {BadInfo} \cup
    {[parses |-> TRUE, cardId |-> id, front |-> FrontOf(id), back |-> BackOf(id),
      buttons |-> ButtonsOf(id)] : id \in CardIds}

\* the identifiers findCards reports as due; the fetch only counts them and
\* passes them on to cardsInfo
DueIds == {101}

\* one element of the findCards result: a JSON number or something else
IdElems == {[num |-> TRUE, v |-> id] : id \in DueIds} \cup {[num |-> FALSE, v |-> 0]}

SeqsUpTo(S, n) == UNION {[1..k -> S] : k \in 0..n}

\* the ways one HTTP exchange can fail inside postAnkiConnect
PostFailures == {"connect", "api"}

\* the decoded "result" payloads: a JSON array or any other JSON value
NotAList == [isList |-> FALSE, items |-> << >>]
FindPayloads == {NotAList} \cup {[isList |-> TRUE, items |-> s] : s \in SeqsUpTo(IdElems, MaxCards)}
InfoPayloads == {NotAList} \cup {[isList |-> TRUE, items |-> s] : s \in SeqsUpTo(InfoRecords, MaxCards)}
AckPayloads == {NotAList}

\* a response of the server to one call: a failure, or a payload
Responses(payloads) ==
    {[fail |-> f, result |-> NotAList] : f \in PostFailures} \cup
    {[fail |-> "none", result |-> p] : p \in payloads}

(***************************************************************************)
(* Errors, messages and commands.                                          *)
(***************************************************************************)
NoErr == [kind |-> "nil", cause |-> "none", cardID |-> 0, ease |-> 0]
Err(kind, cause, cardID, ease) == [kind |-> kind, cause |-> cause, cardID |-> cardID, ease |-> ease]

KeyMsg(k) == [type |-> "KeyMsg", key |-> k]
cardsLoadedMsg(cards) == [type |-> "cardsLoadedMsg", cards |-> cards]
errMsg(e) == [type |-> "errMsg", err |-> e]
cardAnsweredMsg(cardID, ease) == [type |-> "cardAnsweredMsg", cardID |-> cardID, ease |-> ease]
QuitMsg == [type |-> "QuitMsg"]
NoMsg == [type |-> "none"]

NoCmd == [kind |-> "nil", cardID |-> 0, ease |-> 0]
QuitCmd == [kind |-> "Quit", cardID |-> 0, ease |-> 0]
FetchCmd == [kind |-> "fetchDueCards", cardID |-> 0, ease |-> 0]
AnswerCmd(cardID, ease) == [kind |-> "answerCard", cardID |-> cardID, ease |-> ease]

\* the keys the terminal can deliver
Keys == {"q", "enter", "1", "3", "n", "x"}

(***************************************************************************)
(* postAnkiConnect (main.go 283-314): the error, or the result payload.    *)
(***************************************************************************)
postAnkiConnect(resp) ==
    IF resp.fail # "none"
    THEN [err |-> resp.fail, result |-> NotAList]
    ELSE [err |-> "none", result |-> resp.result]

(***************************************************************************)
(* fetchDueCardsCmd (main.go 317-395).                                     *)
(***************************************************************************)
\* the decimal text fmt's %d verb prints for a non-negative integer
Digit(d) ==
    CASE d = 0 -> "0" [] d = 1 -> "1" [] d = 2 -> "2" [] d = 3 -> "3" [] d = 4 -> "4"
      [] d = 5 -> "5" [] d = 6 -> "6" [] d = 7 -> "7" [] d = 8 -> "8" [] d = 9 -> "9"

RECURSIVE Itoa(_)
Itoa(n) == IF n < 10 THEN Digit(n) ELSE Itoa(n \div 10) \o Digit(n % 10)

defaultEaseLabels == (1 :> "Again") @@ (2 :> "Hard") @@ (3 :> "Good") @@ (4 :> "Easy")

\* EaseLabel whose fallback label leaves out the button code
EaseLabelFallbackWithoutCode(easeVal) ==
    IF easeVal \in DOMAIN defaultEaseLabels
    THEN defaultEaseLabels[easeVal]
    ELSE "Ease"

EaseLabel(easeVal) ==
    IF easeVal \in DOMAIN defaultEaseLabels
    THEN defaultEaseLabels[easeVal]
    ELSE "Ease " \o Itoa(easeVal)

Range(s) == {s[i] : i \in DOMAIN s}

\* the easeOptions map built from ci.Buttons
EaseOptionsOf(buttons) == [easeVal \in Range(buttons) |-> EaseLabel(easeVal)]

CardOf(ci) ==
    [ID |-> ci.cardId, Front |-> ci.front, Back |-> ci.back, EaseOptions |-> EaseOptionsOf(ci.buttons)]

\* the loop over ids: the elements that are JSON numbers, in order
RECURSIVE CollectIds(_)
CollectIds(ids) ==
    IF ids = << >> THEN << >>
    ELSE IF ids[1].num THEN <<ids[1].v>> \o CollectIds(Tail(ids))
    ELSE CollectIds(Tail(ids))

\* the loop over infos leaving the loop at the first record that fails to parse
RECURSIVE CollectCardsStopsAtBad(_)
CollectCardsStopsAtBad(infos) ==
    IF infos = << >> THEN << >>
    ELSE IF infos[1].parses THEN <<CardOf(infos[1])>> \o CollectCardsStopsAtBad(Tail(infos))
    ELSE << >>

\* the loop over infos: records that fail to parse are skipped
RECURSIVE CollectCards(_)
CollectCards(infos) ==
    IF infos = << >> THEN << >>
    ELSE IF infos[1].parses THEN <<CardOf(infos[1])>> \o CollectCards(Tail(infos))
    ELSE CollectCards(Tail(infos))

\* fetchDueCardsCmd without the early return for an empty list of identifiers
fetchDueCardsCmdAlwaysAsksInfo(findResp, infoResp) ==
    LET find == postAnkiConnect(findResp)
        info == postAnkiConnect(infoResp)
    IN  IF find.err # "none" THEN errMsg(Err("failed to find due cards", find.err, 0, 0))
        ELSE IF ~find.result.isList THEN errMsg(Err("unexpected findCards result format", "none", 0, 0))
        ELSE IF info.err # "none" THEN errMsg(Err("failed to get cards info", info.err, 0, 0))
        ELSE IF ~info.result.isList THEN errMsg(Err("unexpected cardsInfo result format", "none", 0, 0))
        ELSE cardsLoadedMsg(CollectCards(info.result.items))

\* the message the fetch command delivers, given the server's two responses
fetchDueCardsCmd(findResp, infoResp) ==
    LET find == postAnkiConnect(findResp)
        info == postAnkiConnect(infoResp)
    IN  IF find.err # "none" THEN errMsg(Err("failed to find due cards", find.err, 0, 0))
        ELSE IF ~find.result.isList THEN errMsg(Err("unexpected findCards result format", "none", 0, 0))
        ELSE IF Len(CollectIds(find.result.items)) = 0 THEN cardsLoadedMsg(<< >>)
        ELSE IF info.err # "none" THEN errMsg(Err("failed to get cards info", info.err, 0, 0))
        ELSE IF ~info.result.isList THEN errMsg(Err("unexpected cardsInfo result format", "none", 0, 0))
        ELSE cardsLoadedMsg(CollectCards(info.result.items))

\* one call of postAnkiConnect: the action, its params and the server's response
Call(action, params, resp) == [action |-> action, params |-> params, resp |-> resp]

\* the calls of postAnkiConnect the fetch command makes, in order
fetchDueCardsCalls(findResp, infoResp) ==
    LET find == postAnkiConnect(findResp)
        findCall == Call("findCards", [query |-> "is:due"], findResp)
    IN  IF find.err # "none" THEN <<findCall>>
        ELSE IF ~find.result.isList THEN <<findCall>>
        ELSE IF Len(CollectIds(find.result.items)) = 0 THEN <<findCall>>
        ELSE <<findCall, Call("cardsInfo", [cards |-> CollectIds(find.result.items)], infoResp)>>

(***************************************************************************)
(* answerCardCmd (main.go 398-409).                                        *)
(***************************************************************************)
\* the call of postAnkiConnect the answer command makes
answerCardCalls(cardID, ease, resp) ==
    <<Call("answerCards", [cardId |-> cardID, ease |-> ease], resp)>>

answerCardCmd(cardID, ease, resp) ==
    LET r == postAnkiConnect(resp)
    IN  IF r.err # "none" THEN errMsg(Err("failed to answer card", r.err, cardID, ease))
        ELSE cardAnsweredMsg(cardID, ease)

(***************************************************************************)
(* InitialModel (main.go 154-160).                                         *)
(***************************************************************************)
InitialModel ==
    [cards |-> << >>, currentCardIndex |-> 0, showBack |-> FALSE,
     state |-> stateLoading, err |-> NoErr, quitting |-> FALSE]

(***************************************************************************)
(* Update (main.go 168-240), one operator per case of the switch.  Each    *)
(* returns the new model and the command.                                  *)
(***************************************************************************)
\* strconv.Atoi on a key string
Atoi(s) ==
    CASE s = "1" -> [ok |-> TRUE, val |-> 1]
      [] s = "2" -> [ok |-> TRUE, val |-> 2]
      [] s = "3" -> [ok |-> TRUE, val |-> 3]
      [] s = "4" -> [ok |-> TRUE, val |-> 4]
      [] OTHER -> [ok |-> FALSE, val |-> 0]

\* m.cards[m.currentCardIndex] (Go indexes from 0)
CurrentCard(mm) == mm.cards[mm.currentCardIndex + 1]

\* case "q", "ctrl+c"
UpdateQuit(mm) == [m |-> [mm EXCEPT !.quitting = TRUE], cmd |-> QuitCmd]

\* case "enter"
UpdateEnter(mm) ==
    IF mm.state = stateDisplayingCard
    THEN IF mm.showBack
         THEN [m |-> mm, cmd |-> NoCmd]
         ELSE [m |-> [mm EXCEPT !.showBack = TRUE], cmd |-> NoCmd]
    ELSE [m |-> mm, cmd |-> NoCmd]

\* UpdateEase without the lookup in card.EaseOptions
UpdateEaseUnchecked(mm, k) ==
    IF mm.state = stateDisplayingCard /\ mm.showBack
    THEN LET a == Atoi(k)
         IN  IF ~a.ok
             THEN [m |-> [mm EXCEPT !.err = Err("invalid ease input", "none", 0, 0),
                                    !.state = stateError],
                   cmd |-> NoCmd]
             ELSE IF mm.currentCardIndex < Len(mm.cards)
                  THEN [m |-> mm, cmd |-> AnswerCmd(CurrentCard(mm).ID, a.val)]
                  ELSE [m |-> mm, cmd |-> NoCmd]
    ELSE [m |-> mm, cmd |-> NoCmd]

\* UpdateEase answering the first card of the session instead of the current one
UpdateEaseFirstCard(mm, k) ==
    IF mm.state = stateDisplayingCard /\ mm.showBack
    THEN LET a == Atoi(k)
         IN  IF ~a.ok
             THEN [m |-> [mm EXCEPT !.err = Err("invalid ease input", "none", 0, 0),
                                    !.state = stateError],
                   cmd |-> NoCmd]
             ELSE IF mm.currentCardIndex < Len(mm.cards)
                     /\ a.val \in DOMAIN CurrentCard(mm).EaseOptions
                  THEN [m |-> mm, cmd |-> AnswerCmd(mm.cards[1].ID, a.val)]
                  ELSE [m |-> mm, cmd |-> NoCmd]
    ELSE [m |-> mm, cmd |-> NoCmd]

\* case "1", "2", "3", "4"
UpdateEase(mm, k) ==
    IF mm.state = stateDisplayingCard /\ mm.showBack
    THEN LET a == Atoi(k)
         IN  IF ~a.ok
             THEN [m |-> [mm EXCEPT !.err = Err("invalid ease input", "none", 0, 0),
                                    !.state = stateError],
                   cmd |-> NoCmd]
             ELSE IF mm.currentCardIndex < Len(mm.cards)
                     /\ a.val \in DOMAIN CurrentCard(mm).EaseOptions
                  THEN [m |-> mm, cmd |-> AnswerCmd(CurrentCard(mm).ID, a.val)]
                  ELSE [m |-> mm, cmd |-> NoCmd]
    ELSE [m |-> mm, cmd |-> NoCmd]

\* UpdateSkip discarding the card it advances past instead of moving the cursor
UpdateSkipDiscards(mm) ==
    IF mm.state = stateDisplayingCard
    THEN LET rest == [i \in 1..(Len(mm.cards) - 1) |->
                        IF i <= mm.currentCardIndex THEN mm.cards[i] ELSE mm.cards[i + 1]]
         IN  [m |-> [mm EXCEPT !.cards = rest,
                               !.showBack = FALSE,
                               !.state = IF mm.currentCardIndex >= Len(rest) THEN stateNoCards ELSE @],
              cmd |-> NoCmd]
    ELSE [m |-> mm, cmd |-> NoCmd]

\* UpdateSkip comparing the new cursor with > instead of >=
UpdateSkipOffByOne(mm) ==
    IF mm.state = stateDisplayingCard
    THEN LET next == mm.currentCardIndex + 1
         IN  [m |-> [mm EXCEPT !.currentCardIndex = next,
                               !.showBack = FALSE,
                               !.state = IF next > Len(mm.cards) THEN stateNoCards ELSE @],
              cmd |-> NoCmd]
    ELSE [m |-> mm, cmd |-> NoCmd]

\* UpdateSkip wrapping around to the first card after the last one
UpdateSkipWraps(mm) ==
    IF mm.state = stateDisplayingCard
    THEN LET next == mm.currentCardIndex + 1
         IN  [m |-> [mm EXCEPT !.currentCardIndex = IF next >= Len(mm.cards) THEN 0 ELSE next,
                               !.showBack = FALSE],
              cmd |-> NoCmd]
    ELSE [m |-> mm, cmd |-> NoCmd]

\* case "right", "n"
UpdateSkip(mm) ==
    IF mm.state = stateDisplayingCard
    THEN LET next == mm.currentCardIndex + 1
         IN  [m |-> [mm EXCEPT !.currentCardIndex = next,
                               !.showBack = FALSE,
                               !.state = IF next >= Len(mm.cards) THEN stateNoCards ELSE @],
              cmd |-> NoCmd]
    ELSE [m |-> mm, cmd |-> NoCmd]

\* UpdateCardsLoaded leaving the state alone when the list is empty
UpdateCardsLoadedIgnoresEmpty(mm, cards) ==
    IF Len(cards) = 0
    THEN [m |-> mm, cmd |-> NoCmd]
    ELSE [m |-> [mm EXCEPT !.cards = cards,
                           !.state = stateDisplayingCard,
                           !.currentCardIndex = 0,
                           !.showBack = FALSE],
          cmd |-> NoCmd]

\* case cardsLoadedMsg
UpdateCardsLoaded(mm, cards) ==
    IF Len(cards) = 0
    THEN [m |-> [mm EXCEPT !.state = stateNoCards], cmd |-> NoCmd]
    ELSE [m |-> [mm EXCEPT !.cards = cards,
                           !.state = stateDisplayingCard,
                           !.currentCardIndex = 0,
                           !.showBack = FALSE],
          cmd |-> NoCmd]

\* UpdateCardAnswered applied only while a card is displayed
UpdateCardAnsweredGuarded(mm) ==
    IF mm.state = stateDisplayingCard
    THEN LET next == mm.currentCardIndex + 1
         IN  [m |-> [mm EXCEPT !.currentCardIndex = next,
                               !.showBack = FALSE,
                               !.state = IF next >= Len(mm.cards) THEN stateNoCards ELSE @],
              cmd |-> NoCmd]
    ELSE [m |-> mm, cmd |-> NoCmd]

\* case cardAnsweredMsg
UpdateCardAnswered(mm) ==
    LET next == mm.currentCardIndex + 1
    IN  [m |-> [mm EXCEPT !.currentCardIndex = next,
                          !.showBack = FALSE,
                          !.state = IF next >= Len(mm.cards) THEN stateNoCards ELSE @],
         cmd |-> NoCmd]

\* UpdateErr changing the state without storing the error
UpdateErrDropsError(mm, e) == [m |-> [mm EXCEPT !.state = stateError], cmd |-> NoCmd]

\* case errMsg
UpdateErr(mm, e) == [m |-> [mm EXCEPT !.err = e, !.state = stateError], cmd |-> NoCmd]

\* UpdateKey sending every key it does not know to the ease case
UpdateKeyEaseByDefault(mm, k) ==
    CASE k \in {"q", "ctrl+c"} -> UpdateQuit(mm)
      [] k = "enter" -> UpdateEnter(mm)
      [] k \in {"right", "n"} -> UpdateSkip(mm)
      [] OTHER -> UpdateEase(mm, k)

UpdateKey(mm, k) ==
    CASE k \in {"q", "ctrl+c"} -> UpdateQuit(mm)
      [] k = "enter" -> UpdateEnter(mm)
      [] k \in {"1", "2", "3", "4"} -> UpdateEase(mm, k)
      [] k \in {"right", "n"} -> UpdateSkip(mm)
      [] OTHER -> [m |-> mm, cmd |-> NoCmd]

Update(mm, msg) ==
    CASE msg.type = "KeyMsg" -> UpdateKey(mm, msg.key)
      [] msg.type = "cardsLoadedMsg" -> UpdateCardsLoaded(mm, msg.cards)
      [] msg.type = "cardAnsweredMsg" -> UpdateCardAnswered(mm)
      [] msg.type = "errMsg" -> UpdateErr(mm, msg.err)
      [] OTHER -> [m |-> mm, cmd |-> NoCmd]

(***************************************************************************)
(* View (main.go 243-280).  A frame is the header, the status line and the *)
(* pieces of the body in the order they are written.  Go does not fix the  *)
(* order in which range visits a map, so View yields the set of the frames *)
(* a call can return.                                                      *)
(***************************************************************************)
\* the orders in which range can visit the keys of a map
RangeOrders(S) ==
    {o \in [1..Cardinality(S) -> S] : \A i, j \in 1..Cardinality(S) : o[i] = o[j] => i = j}

\* the text %v prints for the stored error
ErrText(e) ==
    CASE e.kind = "nil" -> "<nil>"
      [] e.kind = "failed to answer card" ->
            "failed to answer card " \o Itoa(e.cardID) \o " with ease " \o Itoa(e.ease) \o ": " \o e.cause
      [] e.cause = "none" -> e.kind
      [] OTHER -> e.kind \o ": " \o e.cause

Frame(header, status, body) == [header |-> header, status |-> status, body |-> body]

View(mm) ==
    IF mm.quitting THEN {Frame("", "", <<"Exiting Anki Study TUI...">>)}
    ELSE CASE mm.state = stateLoading ->
                {Frame("Anki Study TUI", "", <<"Loading cards from AnkiConnect...">>)}
           [] mm.state = stateDisplayingCard ->
                IF Len(mm.cards) > 0 /\ mm.currentCardIndex < Len(mm.cards)
                THEN LET card == CurrentCard(mm)
                         status == "Card " \o Itoa(mm.currentCardIndex + 1) \o "/" \o Itoa(Len(mm.cards))
                     IN  IF mm.showBack
                         THEN {Frame("Anki Study TUI", status,
                                     <<card.Front, card.Back, "Press 1-4 to answer:">> \o
                                     [i \in DOMAIN o |-> Itoa(o[i]) \o ": " \o card.EaseOptions[o[i]]]) :
                                   o \in RangeOrders(DOMAIN card.EaseOptions)}
                         ELSE {Frame("Anki Study TUI", status,
                                     <<card.Front, "Press ENTER to reveal back">>)}
                ELSE {Frame("Anki Study TUI", "", << >>)}
           [] mm.state = stateNoCards ->
                {Frame("Anki Study TUI", "", <<"No cards due today! Great job!", "Press 'q' to quit.">>)}
           [] mm.state = stateError ->
                {Frame("Anki Study TUI", "", <<"Error: " \o ErrText(mm.err), "Press 'q' to quit.">>)}
           [] OTHER -> {Frame("Anki Study TUI", "", << >>)}

(***************************************************************************)
(* The program: the model, the commands the runtime is running, and the    *)
(* message Update processed last.                                          *)
(***************************************************************************)
VARIABLES
    m,          \* the model value held by the event loop
    inflight,   \* sequence of the network commands dispatched and not yet completed
    quitSent,   \* tea.Quit was returned and its QuitMsg is not yet processed
    running,    \* the event loop of p.Run() has not returned
    lastMsg,    \* the message processed by the last step
    lastCalls   \* the calls of postAnkiConnect made by the command that delivered lastMsg

vars == <<m, inflight, quitSent, running, lastMsg, lastCalls>>

\* the network commands among the outstanding ones
IsNetworkCmd(c) == c.kind \in {"fetchDueCards", "answerCard"}

\* one turn of the event loop: Update on msg, then the returned command is started
Process(msg, rest, calls) ==
    LET r == Update(m, msg)
    IN  /\ IsNetworkCmd(r.cmd) => Len(rest) < MaxInflight
        /\ m' = r.m
        /\ inflight' = IF IsNetworkCmd(r.cmd) THEN Append(rest, r.cmd) ELSE rest
        /\ quitSent' = (quitSent \/ r.cmd = QuitCmd)
        /\ lastMsg' = msg
        /\ lastCalls' = calls
        /\ UNCHANGED running

RemoveAt(s, i) == SubSeq(s, 1, i - 1) \o SubSeq(s, i + 1, Len(s))

\* main and model.Init: the loop starts with the fetch command running
Init ==
    /\ m = InitialModel
    /\ inflight = <<FetchCmd>>
    /\ quitSent = FALSE
    /\ running = TRUE
    /\ lastMsg = NoMsg
    /\ lastCalls = << >>

\* the user presses a key
KeyPress ==
    /\ running
    /\ \E k \in Keys : Process(KeyMsg(k), inflight, << >>)

\* the fetch command finishes and its message is processed
FetchCompletes ==
    /\ running
    /\ \E i \in DOMAIN inflight :
        /\ inflight[i].kind = "fetchDueCards"
        /\ \E findResp \in Responses(FindPayloads), infoResp \in Responses(InfoPayloads) :
            Process(fetchDueCardsCmd(findResp, infoResp), RemoveAt(inflight, i),
                    fetchDueCardsCalls(findResp, infoResp))

\* an answer command finishes and its message is processed
AnswerCompletes ==
    /\ running
    /\ \E i \in DOMAIN inflight :
        /\ inflight[i].kind = "answerCard"
        /\ \E resp \in Responses(AckPayloads) :
            Process(answerCardCmd(inflight[i].cardID, inflight[i].ease, resp), RemoveAt(inflight, i),
                    answerCardCalls(inflight[i].cardID, inflight[i].ease, resp))

\* the QuitMsg of tea.Quit reaches the event loop, which returns
ProgramExit ==
    /\ running
    /\ quitSent
    /\ running' = FALSE
    /\ quitSent' = FALSE
    /\ lastMsg' = QuitMsg
    /\ lastCalls' = << >>
    /\ UNCHANGED <<m, inflight>>

Next == KeyPress \/ FetchCompletes \/ AnswerCompletes \/ ProgramExit

Spec == Init /\ [][Next]_vars

\* the runtime runs every command in a goroutine of its own, so a command that
\* was started finishes and its message is processed while the loop runs
FairSpec == Spec /\ WF_vars(FetchCompletes) /\ WF_vars(AnswerCompletes)

TypeOK ==
    /\ m.state \in appState
    /\ m.currentCardIndex \in Nat
    /\ m.showBack \in BOOLEAN
    /\ m.quitting \in BOOLEAN
    /\ Len(inflight) <= MaxInflight
    /\ running \in BOOLEAN

(***************************************************************************)
(* Properties.                                                             *)
(***************************************************************************)
EaseKeys == {"1", "2", "3", "4"}

\* the session is showing a card with its back revealed
Revealed(mm) ==
    /\ mm.state = stateDisplayingCard
    /\ mm.showBack
    /\ mm.currentCardIndex < Len(mm.cards)

\* C1: in every reachable state the cursor lies between 0 and the number of
\* cards in the session.
CursorInBounds == 0 <= m.currentCardIndex /\ m.currentCardIndex <= Len(m.cards)

\* C2: in every reachable state the phase is Exhausted exactly when the cursor
\* equals the number of cards in the session.
ExhaustedIffCursorAtEnd == (m.state = stateNoCards) <=> (m.currentCardIndex = Len(m.cards))

\* C3: Failed is absorbing: once the phase is Failed, no event other than the
\* quit key changes the phase.
FailedIsAbsorbing ==
    [][(m.state = stateError /\ lastMsg' \notin {KeyMsg("q"), KeyMsg("ctrl+c")})
        => m'.state = stateError]_vars

\* C4: at most one network task (fetch or answer call) is outstanding at any time.
AtMostOneOutstanding == Cardinality({i \in DOMAIN inflight : IsNetworkCmd(inflight[i])}) <= 1

\* C5: the cursor never decreases in any transition, the processing of
\* cards-loaded included.
CursorMonotone == [][m'.currentCardIndex >= m.currentCardIndex]_vars

\* C5 witness: the cursor has advanced past the second card by an answer completion.
CursorAdvancedTwice == lastMsg.type = "cardAnsweredMsg" /\ m.currentCardIndex >= 2

\* C6: with the back revealed, an ease key that is not among the current card's
\* ease options changes nothing of the model and dispatches no answer call.
IllegalEaseKeyIsNoOp ==
    [][\A k \in EaseKeys :
        (lastMsg' = KeyMsg(k) /\ Revealed(m) /\ Atoi(k).val \notin DOMAIN CurrentCard(m).EaseOptions)
        => (m' = m /\ inflight' = inflight)]_vars

\* C6 witness: key "1" was just processed on a revealed card that has no option 1.
IllegalEaseKeyPressed ==
    /\ lastMsg = KeyMsg("1")
    /\ Revealed(m)
    /\ 1 \notin DOMAIN CurrentCard(m).EaseOptions
    /\ inflight = << >>

\* C7: with the back revealed, an ease key e that is among the current card's
\* ease options dispatches exactly one answer call, for the card at the cursor
\* with ease e, and leaves the model unchanged.
LegalEaseKeyDispatchesOneAnswer ==
    [][\A k \in EaseKeys :
        (lastMsg' = KeyMsg(k) /\ Revealed(m) /\ Atoi(k).val \in DOMAIN CurrentCard(m).EaseOptions)
        => (/\ m' = m
            /\ inflight' = Append(inflight, AnswerCmd(CurrentCard(m).ID, Atoi(k).val)))]_vars

\* C7 witness: key "3" was just processed on the revealed second card and its
\* answer call is the only one outstanding.
LegalEaseKeyPressed ==
    /\ lastMsg = KeyMsg("3")
    /\ Revealed(m)
    /\ m.currentCardIndex = 1
    /\ inflight = <<AnswerCmd(CurrentCard(m).ID, 3)>>

\* C8: every transition that changes the cursor advances it by exactly one,
\* leaves the back hidden, and ends in Exhausted if the new cursor equals the
\* session length and in Reviewing otherwise.
AdvanceByOneThenPhase ==
    [][m'.currentCardIndex # m.currentCardIndex
        => (/\ m'.currentCardIndex = m.currentCardIndex + 1
            /\ ~m'.showBack
            /\ m'.state = IF m'.currentCardIndex = Len(m'.cards)
                           THEN stateNoCards ELSE stateDisplayingCard)]_vars

\* the errors fetchDueCardsCmd can deliver
FetchErrKinds ==
    {"failed to find due cards", "unexpected findCards result format",
     "failed to get cards info", "unexpected cardsInfo result format"}

\* C9: a failure of the initial fetch leaves the phase Failed, with the error of
\* the fetch stored and no cards loaded.
FetchFailureLeavesFailed ==
    /\ (lastMsg.type = "errMsg" /\ lastMsg.err.kind \in FetchErrKinds)
        => (m.state = stateError /\ m.err = lastMsg.err /\ m.cards = << >>)
    /\ m.err.kind \in FetchErrKinds => (m.state = stateError /\ m.cards = << >>)

\* C9 witness: the detail call failed on the network and its error was processed.
DetailCallFailed ==
    /\ lastMsg = errMsg(Err("failed to get cards info", "connect", 0, 0))
    /\ m.state = stateError

\* C10: processing the reveal key twice in a row gives the same model as
\* processing it once, every frame rendered after the second press equals every
\* frame rendered after the first, and neither press returns a command.
RevealIsIdempotent ==
    LET once == UpdateKey(m, "enter")
        twice == UpdateKey(once.m, "enter")
    IN  /\ twice.m = once.m
        /\ once.cmd = NoCmd
        /\ twice.cmd = NoCmd
        /\ \A f1 \in View(once.m), f2 \in View(twice.m) : f1 = f2

\* the last step processed the message of a fetch whose findCards call was
\* answered with a list holding no identifier
ZeroDueIds ==
    /\ lastCalls # << >>
    /\ lastCalls[1].action = "findCards"
    /\ lastCalls[1].resp.fail = "none"
    /\ lastCalls[1].resp.result.isList
    /\ \A i \in DOMAIN lastCalls[1].resp.result.items : ~lastCalls[1].resp.result.items[i].num

\* C11: when the due-card query returns zero identifiers the fetch makes no
\* cardsInfo call and delivers an empty cards-loaded message, and the model is
\* then Exhausted with no cards and cursor 0.
EmptyQueryExhausts ==
    ZeroDueIds =>
        /\ Len(lastCalls) = 1
        /\ lastMsg = cardsLoadedMsg(<< >>)
        /\ m.state = stateNoCards
        /\ m.cards = << >>
        /\ m.currentCardIndex = 0

\* C11 witness: a fetch whose query returned no identifier has been processed.
EmptyQueryProcessed == ZeroDueIds /\ m.state = stateNoCards /\ inflight = << >>

\* a record of the cardsInfo result that unmarshals into cardInfoResult
Parses(rec) == rec.parses

\* the records of the cardsInfo call that parsed, in the order of the response
ParsedRecords(calls) == SelectSeq(calls[2].resp.result.items, Parses)

\* card is the card of the detail record rec
BuiltFrom(card, rec) ==
    /\ card.ID = rec.cardId
    /\ card.Front = rec.front
    /\ card.Back = rec.back
    /\ DOMAIN card.EaseOptions = {rec.buttons[j] : j \in DOMAIN rec.buttons}

\* C12: a non-empty cards-loaded message arrives in phase Loading and leaves the
\* model holding exactly the cards of the detail records, in the server's
\* order, in phase Reviewing with cursor 0 and the back hidden; after the load
\* no step changes the card sequence.
LoadedCardsKept ==
    [][/\ (lastMsg'.type = "cardsLoadedMsg" /\ lastMsg'.cards # << >>)
            => (/\ m.state = stateLoading
                /\ Len(lastCalls') = 2
                /\ Len(m'.cards) = Len(ParsedRecords(lastCalls'))
                /\ \A i \in DOMAIN m'.cards : BuiltFrom(m'.cards[i], ParsedRecords(lastCalls')[i])
                /\ m'.state = stateDisplayingCard
                /\ m'.currentCardIndex = 0
                /\ ~m'.showBack)
       /\ m.state # stateLoading => m'.cards = m.cards]_vars

\* C12 witness: the records of cards 102 and 101 were just loaded, in that order.
TwoCardsLoaded ==
    /\ lastMsg.type = "cardsLoadedMsg"
    /\ Len(m.cards) = 2
    /\ m.cards[1].ID = 102
    /\ m.cards[2].ID = 101
    /\ m.state = stateDisplayingCard

\* the label the specification gives to button code N
ExpectedLabel(N) ==
    CASE N = 1 -> "Again"
      [] N = 2 -> "Hard"
      [] N = 3 -> "Good"
      [] N = 4 -> "Easy"
      [] N = 5 -> "Ease 5"
      [] OTHER -> "Ease " \o Itoa(N)

\* C13: every card's ease options are exactly the codes of its button list, and
\* the label of code N is "Again", "Hard", "Good", "Easy" for N = 1..4 and
\* "Ease N" for any other N.
EaseLabelsByCode ==
    /\ \A i \in DOMAIN m.cards : \A N \in DOMAIN m.cards[i].EaseOptions :
            m.cards[i].EaseOptions[N] = ExpectedLabel(N)
    /\ (lastMsg.type = "cardsLoadedMsg" /\ Len(lastCalls) = 2) =>
            /\ Len(lastMsg.cards) = Len(ParsedRecords(lastCalls))
            /\ \A i \in DOMAIN lastMsg.cards :
                    LET rec == ParsedRecords(lastCalls)[i]
                        options == lastMsg.cards[i].EaseOptions
                    IN  /\ \A j \in DOMAIN rec.buttons :
                                /\ rec.buttons[j] \in DOMAIN options
                                /\ options[rec.buttons[j]] = ExpectedLabel(rec.buttons[j])
                        /\ \A N \in DOMAIN options : \E j \in DOMAIN rec.buttons : rec.buttons[j] = N

\* C13 witness: a card with the button list [5, 3] was just loaded.
UnknownCodeLabelled ==
    /\ lastMsg.type = "cardsLoadedMsg"
    /\ Len(lastCalls) = 2
    /\ \E i \in DOMAIN m.cards :
            /\ ParsedRecords(lastCalls)[i].buttons = <<5, 3>>
            /\ m.cards[i].EaseOptions = (3 :> "Good") @@ (5 :> "Ease 5")

\* C14: a completion message that arrives in a phase its transition is not
\* defined for is ignored: an answer-succeeded message processed outside
\* Reviewing leaves cursor, revealed flag, phase and stored error unchanged, and
\* an error message processed in Exhausted leaves the phase Exhausted.
StaleCompletionIgnored ==
    [][/\ (lastMsg'.type = "cardAnsweredMsg" /\ m.state # stateDisplayingCard)
            => (/\ m'.currentCardIndex = m.currentCardIndex
                /\ m'.showBack = m.showBack
                /\ m'.state = m.state
                /\ m'.err = m.err)
       /\ (lastMsg'.type = "errMsg" /\ m.state = stateNoCards) => m'.state = stateNoCards]_vars

\* C15: an answer-succeeded message advances the cursor by one and hides the
\* back whatever the phase is and whichever card it names, so a completion for
\* a card the cursor has already left passes over the card now at the cursor.
StaleAnswerAdvances ==
    [][lastMsg'.type = "cardAnsweredMsg"
        => (/\ m'.currentCardIndex = m.currentCardIndex + 1
            /\ ~m'.showBack
            /\ m'.cards = m.cards
            /\ (m.currentCardIndex < Len(m.cards) /\ CurrentCard(m).ID # lastMsg'.cardID)
                    => m'.currentCardIndex > m.currentCardIndex)]_vars

\* C15 witness: the completion of the first card's answer has just moved the
\* cursor past the second card, a different card, and no call is outstanding.
SecondCardPassedOver ==
    /\ lastMsg.type = "cardAnsweredMsg"
    /\ Len(m.cards) = 2
    /\ m.currentCardIndex = 2
    /\ lastMsg.cardID = m.cards[1].ID
    /\ m.cards[2].ID # lastMsg.cardID
    /\ inflight = << >>

\* msg is a message a network command delivers
IsCompletion(msg) == msg.type \in {"cardsLoadedMsg", "errMsg", "cardAnsweredMsg"}

\* msg is a message the command cmd can deliver
Delivers(cmd, msg) ==
    \/ /\ cmd.kind = "fetchDueCards"
       /\ \/ msg.type = "cardsLoadedMsg"
          \/ msg.type = "errMsg" /\ msg.err.kind \in FetchErrKinds
    \/ /\ cmd.kind = "answerCard"
       /\ \/ msg = cardAnsweredMsg(cmd.cardID, cmd.ease)
          \/ /\ msg.type = "errMsg"
             /\ msg.err.kind = "failed to answer card"
             /\ msg.err.cardID = cmd.cardID
             /\ msg.err.ease = cmd.ease

\* C16: every completion message is the one message of one outstanding command,
\* which is outstanding no longer, and a command stops being outstanding only by
\* delivering its message; if commands are scheduled fairly and the user does
\* not quit, every command delivers, Loading is eventually left, and once left
\* it is never entered again.
TasksDeliverOnce ==
    /\ [][/\ IsCompletion(lastMsg')
                => \E i \in DOMAIN inflight :
                        /\ Delivers(inflight[i], lastMsg')
                        /\ inflight' = RemoveAt(inflight, i)
           /\ Len(inflight') < Len(inflight) => IsCompletion(lastMsg')]_vars
    /\ <>(m.state # stateLoading \/ m.quitting)
    /\ <>[](inflight = << >> \/ m.quitting)
    /\ [][m.state # stateLoading => m'.state # stateLoading]_vars

\* C16 witness: the fetch has delivered its cards, Loading is left and no command
\* is outstanding.
FetchDelivered ==
    /\ lastMsg.type = "cardsLoadedMsg"
    /\ m.state = stateDisplayingCard
    /\ inflight = << >>
    /\ ~m.quitting

\* C17: the phase becomes Failed only in a step that processes an error message
\* of a network command; no key moves the model to Failed, and the error of an
\* unparseable ease key is never stored, because every key that reaches the
\* ease case is one strconv.Atoi parses.
FailedOnlyByErrMsg ==
    [][/\ (m'.state = stateError /\ m.state # stateError)
            => (/\ lastMsg'.type = "errMsg"
                /\ lastMsg'.err.kind \in FetchErrKinds \cup {"failed to answer card"})
       /\ lastMsg'.type = "KeyMsg"
            => ((m'.state = m.state /\ m'.err = m.err) \/ m'.state = stateNoCards)
       /\ m'.err.kind # "invalid ease input"
       /\ \A k \in EaseKeys : Atoi(k).ok]_vars

\* C17 witness: the error of a failed answer call has just moved the model to Failed.
AnswerFailureProcessed ==
    /\ m.state = stateError
    /\ lastMsg.type = "errMsg"
    /\ lastMsg.err.kind = "failed to answer card"
    /\ m.err = lastMsg.err

\* the last step processed the message of a fetch whose cardsInfo call was
\* answered with a list of records
DetailListReceived ==
    /\ Len(lastCalls) = 2
    /\ lastCalls[2].action = "cardsInfo"
    /\ lastCalls[2].resp.fail = "none"
    /\ lastCalls[2].resp.result.isList

\* C18: a record of the cardsInfo result that fails to parse is dropped and the
\* fetch does not fail: it delivers cards-loaded with exactly the cards of the
\* records that parsed, in their order, and the session holds these cards.
BadRecordsDropped ==
    DetailListReceived =>
        /\ lastMsg.type = "cardsLoadedMsg"
        /\ Len(lastMsg.cards) = Len(ParsedRecords(lastCalls))
        /\ \A i \in DOMAIN lastMsg.cards : BuiltFrom(lastMsg.cards[i], ParsedRecords(lastCalls)[i])
        /\ m.cards = lastMsg.cards
        /\ m.state = IF lastMsg.cards = << >> THEN stateNoCards ELSE stateDisplayingCard

\* C18 witness: a record that does not parse came before one that does, and
\* the session holds the one card.
BadRecordBeforeGoodOne ==
    /\ DetailListReceived
    /\ \E i, j \in DOMAIN lastCalls[2].resp.result.items :
            /\ i < j
            /\ ~lastCalls[2].resp.result.items[i].parses
            /\ lastCalls[2].resp.result.items[j].parses
    /\ Len(m.cards) = 1
    /\ m.state = stateDisplayingCard

\* the codes of S in ascending order
Ascending(S) == CHOOSE o \in RangeOrders(S) : \A i, j \in DOMAIN o : i < j => o[i] < o[j]

\* C19: with the back revealed, every frame View can return lists one control
\* per ease option of the current card in ascending order of the ease value,
\* so two renderings of the same model give the same frame.
RenderingDeterministic ==
    (Revealed(m) /\ ~m.quitting) =>
        LET card == CurrentCard(m)
            codes == Ascending(DOMAIN card.EaseOptions)
        IN  \A f \in View(m) :
                f.body = <<card.Front, card.Back, "Press 1-4 to answer:">> \o
                         [i \in DOMAIN codes |-> Itoa(codes[i]) \o ": " \o card.EaseOptions[codes[i]]]

\* C20: in phase Reviewing the session is not empty and the cursor is the index
\* of a card, so the guards before m.cards[m.currentCardIndex] in Update and
\* View hold and View never returns a Reviewing frame without a card.
ReviewingHasCurrentCard ==
    m.state = stateDisplayingCard =>
        /\ Len(m.cards) > 0
        /\ 0 <= m.currentCardIndex
        /\ m.currentCardIndex < Len(m.cards)
        /\ \A f \in View(m) : f.body # << >>

\* C20 witness: a skip has just moved the cursor to the second, last card.
SkippedToLastCard ==
    /\ lastMsg = KeyMsg("n")
    /\ m.state = stateDisplayingCard
    /\ m.currentCardIndex = 1
    /\ Len(m.cards) = 2
====
